---- MODULE Spec2Model ----
(***************************************************************************)
(* The ESQL-to-XSD conversion service of src/Node.js.  The file holds the  *)
(* same Express application in three distinct revisions (the fourth copy,  *)
(* lines 477-593, repeats the first and is cut off inside its handler):    *)
(*   "fileupload"  lines   1-169  express-fileupload, pre-check, lengths   *)
(*   "multer"      lines 171-272  multer, no pre-check, short response     *)
(*   "middleware"  lines 274-475  as the first, plus an error middleware   *)
(* A JavaScript string is a sequence of one-character strings (one UTF-16  *)
(* code unit each); a run of fixed text (the template before and after its *)
(* two generated comments, a comment delimiter, the date part of a time    *)
(* stamp) is carried as a single element whose Len is its number of code   *)
(* units.                                                                  *)
(***************************************************************************)
EXTENDS Integers, Sequences, FiniteSets, TLC

\* ---------------------------------------------------------------- bounds
MaxNameLen == 2
MaxContentLen == 2
MaxClock == 2

Revisions == {"fileupload", "multer", "middleware"}

\* ------------------------------------------------------ JavaScript values
Undefined == [t |-> "undefined"]
Null == [t |-> "null"]
Str(s) == [t |-> "string", s |-> s]
Num(n) == [t |-> "number", n |-> n]
EmptyObject == [t |-> "object"]

\* ToBoolean, as applied by !x, x || y and if (x)
Truthy(v) ==
    CASE v.t = "undefined" -> FALSE
      [] v.t = "null" -> FALSE
      [] v.t = "string" -> v.s # <<>>
      [] v.t = "number" -> v.n # 0
      [] OTHER -> TRUE

\* a || b
Or(a, b) == IF Truthy(a) THEN a ELSE b

\* body.p for a parsed body: a string has no such property
Prop(body, p) ==
    IF body.t = "object" /\ p \in DOMAIN body THEN body[p] ELSE Undefined

\* code units of one element of a string
Units(e) == IF e \in {"U+00E9", "U+FFFD"} THEN 1 ELSE Len(e)

RECURSIVE StrLength(_)
\* s.length, summed by halves
StrLength(s) ==
    IF s = <<>> THEN 0
    ELSE IF Len(s) = 1 THEN Units(s[1])
    ELSE LET h == Len(s) \div 2
         IN  StrLength(SubSeq(s, 1, h)) + StrLength(SubSeq(s, h + 1, Len(s)))

WhiteSpace == {" ", "\t", "\n", "\r", "\f"}

RECURSIVE TrimStart(_)
TrimStart(s) ==
    IF s # <<>> /\ Head(s) \in WhiteSpace THEN TrimStart(Tail(s)) ELSE s

RECURSIVE TrimEnd(_)
TrimEnd(s) ==
    IF s # <<>> /\ s[Len(s)] \in WhiteSpace
    THEN TrimEnd(SubSeq(s, 1, Len(s) - 1)) ELSE s

\* s.trim()
trim(s) == TrimEnd(TrimStart(s))

\* String(v), as a template literal applies it to ${v}
StringOf(v) ==
    CASE v.t = "string" -> v.s
      [] v.t = "number" -> IF v.n = 0 THEN <<"0">> ELSE <<"5">>
      [] v.t = "null" -> <<"n", "u", "l", "l">>
      [] v.t = "undefined" -> <<"u", "n", "d", "e", "f", "i", "n", "e", "d">>
      [] OTHER -> <<"[object Object]">>

RECURSIVE Utf8Decode(_)
\* buffer.toString('utf8'): an ASCII byte is written as its character, any
\* other byte as two hex digits; an ill-formed byte decodes to U+FFFD
Utf8Decode(b) ==
    IF b = <<>> THEN <<>>
    ELSE IF Len(Head(b)) = 1 THEN <<Head(b)>> \o Utf8Decode(Tail(b))
    ELSE IF Head(b) = "C3" /\ Len(b) >= 2 /\ b[2] = "A9"
         THEN <<"U+00E9">> \o Utf8Decode(SubSeq(b, 3, Len(b)))
    ELSE <<"U+FFFD">> \o Utf8Decode(Tail(b))

\* ------------------------------------------------------------- file names
UnknownEsql == <<"u", "n", "k", "n", "o", "w", "n", ".", "e", "s", "q", "l">>
InputEsql == <<"i", "n", "p", "u", "t", ".", "e", "s", "q", "l">>
ConvertedFileEsql == <<"c", "o", "n", "v", "e", "r", "t", "e", "d", "_", "f", "i", "l", "e", ".", "e", "s", "q", "l">>
DotXsd == <<".", "x", "s", "d">>
SampleEsql == <<"s", "a", "m", "p", "l", "e", ".", "e", "s", "q", "l">>
SampleXsd == <<"s", "a", "m", "p", "l", "e", ".", "x", "s", "d">>
XEsql == <<"x", ".", "e", "s", "q", "l">>

\* canonical form of a character under the /i flag (ASCII letters only)
Canonicalize(ch) ==
    CASE ch = "e" -> "E" [] ch = "s" -> "S" [] ch = "q" -> "Q" [] ch = "l" -> "L"
      [] OTHER -> ch

\* the pattern without its i flag
MatchesAtCaseSensitive(s, i) ==
    /\ i >= 1
    /\ i + 4 = Len(s)
    /\ SubSeq(s, i, i + 4) = <<".", "e", "s", "q", "l">>

\* /\.esql$/i matches s at index i
MatchesAt(s, i) ==
    /\ i >= 1
    /\ i + 4 = Len(s)
    /\ s[i] = "."
    /\ Canonicalize(s[i + 1]) = "E"
    /\ Canonicalize(s[i + 2]) = "S"
    /\ Canonicalize(s[i + 3]) = "Q"
    /\ Canonicalize(s[i + 4]) = "L"

\* s.replace(/\.esql$/i, '.xsd'): the leftmost match is replaced
ReplaceEsqlSuffix(s) ==
    LET hits == {i \in 1..Len(s) : MatchesAt(s, i)}
    IN  IF hits = {} THEN s
        ELSE LET i == CHOOSE j \in hits : \A k \in hits : j <= k
             IN  SubSeq(s, 1, i - 1) \o DotXsd \o SubSeq(s, i + 5, Len(s))

\* ------------------------------------------------------------ the template
FileuploadHead ==
    "<?xml version=\"1.0\" encoding=\"UTF-8\"?>\n"
    \o "<xs:schema xmlns:xs=\"http://www.w3.org/2001/XMLSchema\"\n"
    \o "           targetNamespace=\"http://esql.conversion.schema\"\n"
    \o "           xmlns:tns=\"http://esql.conversion.schema\"\n"
    \o "           elementFormDefault=\"qualified\"\n"
    \o "           attributeFormDefault=\"unqualified\">\n"
    \o "    \n"
    \o "    "

FileuploadTail ==
    "\n"
    \o "    \n"
    \o "    <!-- Root element definition -->\n"
    \o "    <xs:element name=\"TransformedMessage\" type=\"tns:TransformedMessageType\"/>\n"
    \o "    \n"
    \o "    <!-- Main complex type for transformed message -->\n"
    \o "    <xs:complexType name=\"TransformedMessageType\">\n"
    \o "        <xs:sequence>\n"
    \o "            <xs:element name=\"Header\" type=\"tns:HeaderType\" minOccurs=\"0\"/>\n"
    \o "            <xs:element name=\"Body\" type=\"tns:BodyType\" minOccurs=\"0\"/>\n"
    \o "            <xs:element name=\"ProcessingInfo\" type=\"tns:ProcessingInfoType\" minOccurs=\"0\"/>\n"
    \o "        </xs:sequence>\n"
    \o "    </xs:complexType>\n"
    \o "    \n"
    \o "    <!-- Header type definition -->\n"
    \o "    <xs:complexType name=\"HeaderType\">\n"
    \o "        <xs:sequence>\n"
    \o "            <xs:element name=\"MessageID\" type=\"xs:string\" minOccurs=\"0\"/>\n"
    \o "            <xs:element name=\"Timestamp\" type=\"xs:dateTime\" minOccurs=\"0\"/>\n"
    \o "            <xs:element name=\"Source\" type=\"xs:string\" minOccurs=\"0\"/>\n"
    \o "            <xs:element name=\"Destination\" type=\"xs:string\" minOccurs=\"0\"/>\n"
    \o "        </xs:sequence>\n"
    \o "    </xs:complexType>\n"
    \o "    \n"
    \o "    <!-- Processing info type -->\n"
    \o "    <xs:complexType name=\"ProcessingInfoType\">\n"
    \o "        <xs:sequence>\n"
    \o "            <xs:element name=\"Timestamp\" type=\"xs:dateTime\" minOccurs=\"0\"/>\n"
    \o "            <xs:element name=\"ProcessedBy\" type=\"xs:string\" minOccurs=\"0\"/>\n"
    \o "            <xs:element name=\"Status\" type=\"tns:ProcessingStatusType\" minOccurs=\"0\"/>\n"
    \o "        </xs:sequence>\n"
    \o "    </xs:complexType>\n"
    \o "    \n"
    \o "    <!-- Processing status enumeration -->\n"
    \o "    <xs:simpleType name=\"ProcessingStatusType\">\n"
    \o "        <xs:restriction base=\"xs:string\">\n"
    \o "            <xs:enumeration value=\"SUCCESS\"/>\n"
    \o "            <xs:enumeration value=\"PROCESSING\"/>\n"
    \o "            <xs:enumeration value=\"ERROR\"/>\n"
    \o "            <xs:enumeration value=\"COMPLETED\"/>\n"
    \o "        </xs:restriction>\n"
    \o "    </xs:simpleType>\n"
    \o "\n"
    \o "    <!-- Body type definition -->\n"
    \o "    <xs:complexType name=\"BodyType\">\n"
    \o "        <xs:sequence>\n"
    \o "            <xs:element name=\"ProcessingResult\" type=\"xs:string\" minOccurs=\"0\"/>\n"
    \o "            <xs:element name=\"ProcessedElements\" type=\"xs:integer\" minOccurs=\"0\"/>\n"
    \o "        </xs:sequence>\n"
    \o "    </xs:complexType>\n"
    \o "\n"
    \o "</xs:schema>"

MulterHead ==
    "<?xml version=\"1.0\" encoding=\"UTF-8\"?>\n"
    \o "<xs:schema xmlns:xs=\"http://www.w3.org/2001/XMLSchema\"\n"
    \o "           targetNamespace=\"http://esql.conversion.schema\"\n"
    \o "           xmlns:tns=\"http://esql.conversion.schema\"\n"
    \o "           elementFormDefault=\"qualified\">\n"
    \o "    \n"
    \o "    "

MulterTail ==
    "\n"
    \o "    \n"
    \o "    <xs:element name=\"TransformedMessage\" type=\"tns:TransformedMessageType\"/>\n"
    \o "    <!-- Add the rest of your XSD generation logic -->\n"
    \o "    \n"
    \o "</xs:schema>"

MiddlewareHead ==
    "<?xml version=\"1.0\" encoding=\"UTF-8\"?>\n"
    \o "<xs:schema xmlns:xs=\"http://www.w3.org/2001/XMLSchema\"\n"
    \o "           targetNamespace=\"http://esql.conversion.schema\"\n"
    \o "           xmlns:tns=\"http://esql.conversion.schema\"\n"
    \o "           elementFormDefault=\"qualified\"\n"
    \o "           attributeFormDefault=\"unqualified\">\n"
    \o "    \n"
    \o "    "

MiddlewareTail ==
    "\n"
    \o "    \n"
    \o "    <!-- Root element definition -->\n"
    \o "    <xs:element name=\"TransformedMessage\" type=\"tns:TransformedMessageType\"/>\n"
    \o "    \n"
    \o "    <!-- Main complex type for transformed message -->\n"
    \o "    <xs:complexType name=\"TransformedMessageType\">\n"
    \o "        <xs:sequence>\n"
    \o "            <xs:element name=\"Header\" type=\"tns:HeaderType\" minOccurs=\"0\"/>\n"
    \o "            <xs:element name=\"Body\" type=\"tns:BodyType\" minOccurs=\"0\"/>\n"
    \o "            <xs:element name=\"ProcessingInfo\" type=\"tns:ProcessingInfoType\" minOccurs=\"0\"/>\n"
    \o "        </xs:sequence>\n"
    \o "    </xs:complexType>\n"
    \o "    \n"
    \o "    <!-- Header type definition -->\n"
    \o "    <xs:complexType name=\"HeaderType\">\n"
    \o "        <xs:sequence>\n"
    \o "            <xs:element name=\"MessageID\" type=\"xs:string\" minOccurs=\"0\"/>\n"
    \o "            <xs:element name=\"Timestamp\" type=\"xs:dateTime\" minOccurs=\"0\"/>\n"
    \o "            <xs:element name=\"Source\" type=\"xs:string\" minOccurs=\"0\"/>\n"
    \o "            <xs:element name=\"Destination\" type=\"xs:string\" minOccurs=\"0\"/>\n"
    \o "        </xs:sequence>\n"
    \o "    </xs:complexType>\n"
    \o "    \n"
    \o "    <!-- Processing info type -->\n"
    \o "    <xs:complexType name=\"ProcessingInfoType\">\n"
    \o "        <xs:sequence>\n"
    \o "            <xs:element name=\"Timestamp\" type=\"xs:dateTime\" minOccurs=\"0\"/>\n"
    \o "            <xs:element name=\"ProcessedBy\" type=\"xs:string\" minOccurs=\"0\"/>\n"
    \o "            <xs:element name=\"Status\" type=\"tns:ProcessingStatusType\" minOccurs=\"0\"/>\n"
    \o "        </xs:sequence>\n"
    \o "    </xs:complexType>\n"
    \o "    \n"
    \o "    <!-- Processing status enumeration -->\n"
    \o "    <xs:simpleType name=\"ProcessingStatusType\">\n"
    \o "        <xs:restriction base=\"xs:string\">\n"
    \o "            <xs:enumeration value=\"SUCCESS\"/>\n"
    \o "            <xs:enumeration value=\"PROCESSING\"/>\n"
    \o "            <xs:enumeration value=\"ERROR\"/>\n"
    \o "            <xs:enumeration value=\"COMPLETED\"/>\n"
    \o "        </xs:restriction>\n"
    \o "    </xs:simpleType>\n"
    \o "\n"
    \o "    <!-- Body type definition -->\n"
    \o "    <xs:complexType name=\"BodyType\">\n"
    \o "        <xs:sequence>\n"
    \o "            <xs:element name=\"ProcessingResult\" type=\"xs:string\" minOccurs=\"0\"/>\n"
    \o "            <xs:element name=\"ProcessedElements\" type=\"xs:integer\" minOccurs=\"0\"/>\n"
    \o "            <xs:element name=\"CustomerInfo\" type=\"tns:CustomerInfoType\" minOccurs=\"0\"/>\n"
    \o "            <xs:element name=\"OrderDetails\" type=\"tns:OrderDetailsType\" minOccurs=\"0\"/>\n"
    \o "        </xs:sequence>\n"
    \o "    </xs:complexType>\n"
    \o "    \n"
    \o "    <!-- Customer info type -->\n"
    \o "    <xs:complexType name=\"CustomerInfoType\">\n"
    \o "        <xs:sequence>\n"
    \o "            <xs:element name=\"ID\" type=\"xs:string\" minOccurs=\"0\"/>\n"
    \o "            <xs:element name=\"Name\" type=\"xs:string\" minOccurs=\"0\"/>\n"
    \o "            <xs:element name=\"Email\" type=\"xs:string\" minOccurs=\"0\"/>\n"
    \o "            <xs:element name=\"Phone\" type=\"xs:string\" minOccurs=\"0\"/>\n"
    \o "        </xs:sequence>\n"
    \o "    </xs:complexType>\n"
    \o "    \n"
    \o "    <!-- Order details type -->\n"
    \o "    <xs:complexType name=\"OrderDetailsType\">\n"
    \o "        <xs:sequence>\n"
    \o "            <xs:element name=\"OrderNumber\" type=\"xs:string\" minOccurs=\"0\"/>\n"
    \o "            <xs:element name=\"OrderDate\" type=\"xs:date\" minOccurs=\"0\"/>\n"
    \o "            <xs:element name=\"TotalAmount\" type=\"xs:decimal\" minOccurs=\"0\"/>\n"
    \o "            <xs:element name=\"Status\" type=\"xs:string\" minOccurs=\"0\"/>\n"
    \o "        </xs:sequence>\n"
    \o "    </xs:complexType>\n"
    \o "\n"
    \o "</xs:schema>"

TemplateHead(rv) ==
    CASE rv = "fileupload" -> <<FileuploadHead>>
      [] rv = "multer" -> <<MulterHead>>
      [] OTHER -> <<MiddlewareHead>>

TemplateTail(rv) ==
    CASE rv = "fileupload" -> <<FileuploadTail>>
      [] rv = "multer" -> <<MulterTail>>
      [] OTHER -> <<MiddlewareTail>>

\* ------------------------------------------------------------------ clock
Digit(n) ==
    CASE n = 0 -> "0" [] n = 1 -> "1" [] n = 2 -> "2" [] n = 3 -> "3"
      [] n = 4 -> "4" [] n = 5 -> "5" [] n = 6 -> "6" [] n = 7 -> "7"
      [] n = 8 -> "8" [] OTHER -> "9"

\* new Date().toISOString() when the clock reads t milliseconds (t < 1000)
toISOString(t) ==
    <<"1970-01-01T00:00:00.">>
    \o <<Digit((t \div 100) % 10), Digit((t \div 10) % 10), Digit(t % 10), "Z">>

\* ----------------------------------------------------------------- errors
NoError == [name |-> "none", message |-> ""]
Error(m) == [name |-> "Error", message |-> m]
TypeError(m) == [name |-> "TypeError", message |-> m]

Returned(v) == [threw |-> FALSE, err |-> NoError, value |-> v]
Thrown(e) == [threw |-> TRUE, err |-> e, value |-> <<>>]

\* ------------------------------------------------------- convertESQLToXSD
\* the comment naming the converted file instead of the original
GeneratedCommentsConverted(name, now) ==
    <<"<!--", " Generated from ESQL file: ">> \o ReplaceEsqlSuffix(name) \o <<" ", "-->">>
    \o <<"\n    ", "<!--", " Generated on: ">> \o toISOString(now) \o <<" ", "-->">>

\* The two comment lines of the template, with their delimiters as elements
\* of their own.
GeneratedComments(name, now) ==
    <<"<!--", " Generated from ESQL file: ">> \o name \o <<" ", "-->">>
    \o <<"\n    ", "<!--", " Generated on: ">> \o toISOString(now) \o <<" ", "-->">>

\* the converter without its blank check on the trimmed text
convertWithoutTrim(rv, esqlCode, originalFileName, now) ==
    LET name == IF originalFileName.t = "undefined"
                THEN Str(ConvertedFileEsql) ELSE originalFileName
    IN  IF ~Truthy(esqlCode) THEN Thrown(Error("ESQL content is empty"))
        ELSE IF esqlCode.t # "string"
             THEN Thrown(TypeError("esqlCode.trim is not a function"))
        ELSE Returned(TemplateHead(rv)
                      \o GeneratedComments(StringOf(name), now)
                      \o TemplateTail(rv))

\* a converter whose output carries the non-blank lines of its input
convertEmbeddingLines(rv, esqlCode, originalFileName, now) ==
    LET name == IF originalFileName.t = "undefined"
                THEN Str(ConvertedFileEsql) ELSE originalFileName
    IN  IF ~Truthy(esqlCode) THEN Thrown(Error("ESQL content is empty"))
        ELSE IF esqlCode.t # "string"
             THEN Thrown(TypeError("esqlCode.trim is not a function"))
        ELSE IF trim(esqlCode.s) = <<>>
             THEN Thrown(Error("ESQL content is empty"))
        ELSE Returned(TemplateHead(rv)
                      \o GeneratedComments(StringOf(name), now)
                      \o trim(esqlCode.s)
                      \o TemplateTail(rv))

\* The value `lines` of the first two revisions is computed and never read.
convertESQLToXSD(rv, esqlCode, originalFileName, now) ==
    LET name == IF originalFileName.t = "undefined"
                THEN Str(ConvertedFileEsql) ELSE originalFileName
    IN  IF ~Truthy(esqlCode) THEN Thrown(Error("ESQL content is empty"))
        ELSE IF esqlCode.t # "string"
             THEN Thrown(TypeError("esqlCode.trim is not a function"))
        ELSE IF trim(esqlCode.s) = <<>>
             THEN Thrown(Error("ESQL content is empty"))
        ELSE Returned(TemplateHead(rv)
                      \o GeneratedComments(StringOf(name), now)
                      \o TemplateTail(rv))

\* --------------------------------------------------------------- requests
NoFile == [t |-> "none"]
File(name, data) == [t |-> "file", name |-> name, data |-> data]
\* several parts named "file": express-fileupload stores an array there
FileArray == [t |-> "array"]

JsonBody(content, esqlField, filename) ==
    [t |-> "object", content |-> content, esqlContent |-> esqlField,
     filename |-> filename]
\* a body the parser rejects, passed on with next(err)
MalformedBody == [t |-> "malformed"]

NoRequest == [route |-> "none", files |-> NoFile, body |-> Undefined]

\* the locals of the handler as it leaves the extraction step
Locals(c, f) == [threw |-> FALSE, err |-> NoError, esqlContent |-> c, fileName |-> f]
InitialLocals == Locals(Str(<<>>), Str(UnknownEsql))

\* the body branch without its default file name
ExtractFileuploadNoDefault(r) ==
    IF r.files.t # "none"
    THEN IF r.files.t = "array"
         THEN [InitialLocals EXCEPT !.threw = TRUE,
                 !.err = TypeError("Cannot read properties of undefined (reading 'toString')")]
         ELSE Locals(Str(Utf8Decode(r.files.data)), Str(r.files.name))
    ELSE IF Truthy(r.body)
    THEN Locals(IF r.body.t = "string" THEN r.body
                ELSE Or(Prop(r.body, "content"), Prop(r.body, "esqlContent")),
                Prop(r.body, "filename"))
    ELSE InitialLocals

\* the alternate field consulted first
ExtractFileuploadSwapped(r) ==
    IF r.files.t # "none"
    THEN IF r.files.t = "array"
         THEN [InitialLocals EXCEPT !.threw = TRUE,
                 !.err = TypeError("Cannot read properties of undefined (reading 'toString')")]
         ELSE Locals(Str(Utf8Decode(r.files.data)), Str(r.files.name))
    ELSE IF Truthy(r.body)
    THEN Locals(IF r.body.t = "string" THEN r.body
                ELSE Or(Prop(r.body, "esqlContent"), Prop(r.body, "content")),
                Or(Prop(r.body, "filename"), Str(InputEsql)))
    ELSE InitialLocals

\* lines 94-102 and 388-396
ExtractFileupload(r) ==
    IF r.files.t # "none"
    THEN IF r.files.t = "array"
         THEN [InitialLocals EXCEPT !.threw = TRUE,
                 !.err = TypeError("Cannot read properties of undefined (reading 'toString')")]
         ELSE Locals(Str(Utf8Decode(r.files.data)), Str(r.files.name))
    ELSE IF Truthy(r.body)
    THEN Locals(IF r.body.t = "string" THEN r.body
                ELSE Or(Prop(r.body, "content"), Prop(r.body, "esqlContent")),
                Or(Prop(r.body, "filename"), Str(InputEsql)))
    ELSE InitialLocals

\* the body branch leaving the initial file name in place
ExtractMulterNoDefault(r) ==
    IF r.files.t # "none"
    THEN Locals(Str(Utf8Decode(r.files.data)), Str(r.files.name))
    ELSE IF Truthy(r.body)
    THEN Locals(IF r.body.t = "string" THEN r.body ELSE Prop(r.body, "content"),
                Or(Prop(r.body, "filename"), Str(UnknownEsql)))
    ELSE InitialLocals

\* lines 218-226
ExtractMulter(r) ==
    IF r.files.t # "none"
    THEN Locals(Str(Utf8Decode(r.files.data)), Str(r.files.name))
    ELSE IF Truthy(r.body)
    THEN Locals(IF r.body.t = "string" THEN r.body ELSE Prop(r.body, "content"),
                Or(Prop(r.body, "filename"), Str(InputEsql)))
    ELSE InitialLocals

\* -------------------------------------------------------------- responses
Json(code, body) == [code |-> code, body |-> body]
NoResponse == Json(0, [none |-> TRUE])

\* the catch block: res.status(400).json({success: false, error: error.message})
CatchBlock(e) == Json(400, [success |-> FALSE, error |-> e.message])

Outcome(response, ex, e) ==
    [res |-> response, esqlContent |-> ex.esqlContent, fileName |-> ex.fileName,
     caught |-> e]

Caught(ex, e) == Outcome(CatchBlock(e), ex, e)

\* both lengths taken from the input text
LongSuccessCopied(ex, xsdContent, outputFileName, now) ==
    Json(200, [success |-> TRUE,
               originalFileName |-> ex.fileName.s,
               convertedFileName |-> outputFileName,
               xsdContent |-> xsdContent,
               esqlContentLength |-> StrLength(ex.esqlContent.s),
               xsdContentLength |-> StrLength(ex.esqlContent.s),
               conversionDate |-> toISOString(now),
               conversionType |-> "ESQL_TO_XSD"])

\* lines 111-120 and 405-414
LongSuccess(ex, xsdContent, outputFileName, now) ==
    Json(200, [success |-> TRUE,
               originalFileName |-> ex.fileName.s,
               convertedFileName |-> outputFileName,
               xsdContent |-> xsdContent,
               esqlContentLength |-> StrLength(ex.esqlContent.s),
               xsdContentLength |-> StrLength(xsdContent),
               conversionDate |-> toISOString(now),
               conversionType |-> "ESQL_TO_XSD"])

\* lines 231-237
ShortSuccess(ex, xsdContent, outputFileName, now) ==
    Json(200, [success |-> TRUE,
               originalFileName |-> ex.fileName.s,
               convertedFileName |-> outputFileName,
               xsdContent |-> xsdContent,
               conversionDate |-> toISOString(now)])

\* the conversion, the renaming and the success response, inside the try
ConvertAndRespond(rv, ex, now1, now2) ==
    LET cv == convertESQLToXSD(rv, ex.esqlContent, ex.fileName, now1)
    IN  IF cv.threw THEN Caught(ex, cv.err)
        ELSE IF ex.fileName.t # "string"
             THEN Caught(ex, TypeError("fileName.replace is not a function"))
        ELSE LET outputFileName == ReplaceEsqlSuffix(ex.fileName.s)
             IN  Outcome(IF rv = "multer"
                         THEN ShortSuccess(ex, cv.value, outputFileName, now2)
                         ELSE LongSuccess(ex, cv.value, outputFileName, now2),
                         ex, NoError)

\* the handler without the pre-check of lines 104-106
HandleConvertUnchecked(rv, r, now1, now2) ==
    LET ex == ExtractFileupload(r)
    IN  IF ex.threw THEN Caught(ex, ex.err)
        ELSE ConvertAndRespond(rv, ex, now1, now2)

\* lines 89-128 and 383-422: extraction, the pre-check of lines 104-106
HandleConvertPreChecked(rv, r, now1, now2) ==
    LET ex == ExtractFileupload(r)
    IN  IF ex.threw THEN Caught(ex, ex.err)
        ELSE IF ~Truthy(ex.esqlContent)
             THEN Caught(ex, Error("No ESQL content provided"))
        ELSE ConvertAndRespond(rv, ex, now1, now2)

\* lines 213-245: no pre-check
HandleConvertMulter(r, now1, now2) ==
    ConvertAndRespond("multer", ExtractMulter(r), now1, now2)

\* the handler of revision rv
HandleConvert(rv, r, now1, now2) ==
    IF rv = "multer" THEN HandleConvertMulter(r, now1, now2)
    ELSE HandleConvertPreChecked(rv, r, now1, now2)

\* ----------------------------------------------------------------- inputs
SeqsUpTo(S, n) == UNION {[1..k -> S] : k \in 0..n}

ContentAlphabet == {" ", "\n", "x"}
SampleContent ==
    <<"C", "R", "E", "A", "T", "E", " ", "C", "O", "M", "P", "U", "T", "E", " ",
      "M", "O", "D", "U", "L", "E", " ", "T", "e", "s", "t", "\n",
      "E", "N", "D", " ", "M", "O", "D", "U", "L", "E", ";">>
Contents == SeqsUpTo(ContentAlphabet, MaxContentLen) \cup {SampleContent, <<"\t">>}

\* uploaded bytes: the ASCII texts, a two-byte character, an ill-formed byte
FileData == Contents \cup {<<"C3", "A9">>, <<"x", "FF">>}

NameAlphabet == {"a", "-", "."}
FixedNames ==
    { XEsql, SampleEsql, UnknownEsql, InputEsql, ConvertedFileEsql,
      <<"a", ".", "E", "S", "Q", "L">>,
      <<"a", ".", "E", "s", "q", "L">>,
      <<".", "e", "s", "q", "l">>,
      <<"a", ".", "e", "s", "q", "l", ".", "b">>,
      <<"a", ".", "e", "s", "q", "l", ".", "e", "s", "q", "l">>,
      <<"a", "x", "e", "s", "q", "l">>,
      <<"a", ".", "e", "s", "q", "l", "\n">>,
      <<"a", ".", "x", "s", "d">>,
      <<"a", "-", "-", "b", ".", "e", "s", "q", "l">>,
      <<"a", "-", "-", ">", "b">>,
      <<"-", "-", ">", "<">>,
      <<"-", "-", ">", "<", "!", "-", "-">> }
FileNames == SeqsUpTo(NameAlphabet, MaxNameLen) \cup FixedNames

NonStrings == {Null, Num(0), Num(5), EmptyObject}
ContentValues == {Undefined} \cup NonStrings \cup {Str(c) : c \in Contents}
EsqlContentValues == {Undefined, Str(<<>>), Str(<<" ">>), Str(<<"y">>)}
FilenameValues == {Undefined, Num(5), EmptyObject} \cup {Str(n) : n \in FileNames}

JsonBodies ==
    {JsonBody(c, e, f) : c \in ContentValues, e \in EsqlContentValues,
                         f \in FilenameValues}
TextBodies == {Str(c) : c \in Contents}
\* the text fields sent along with an uploaded file
FormFields == {JsonBody(Undefined, Undefined, Undefined),
               JsonBody(Str(<<"y">>), Undefined, Str(XEsql))}
Files == {File(n, d) : n \in FileNames, d \in FileData}

ConvertRequests(rv) ==
    {[route |-> "convert", files |-> NoFile, body |-> b] :
        b \in {Undefined, MalformedBody} \cup TextBodies \cup JsonBodies}
    \cup {[route |-> "convert", files |-> f, body |-> b] :
             f \in Files \cup (IF rv = "multer" THEN {} ELSE {FileArray}),
             b \in FormFields}

Requests(rv) ==
    ConvertRequests(rv)
    \cup {[route |-> "health", files |-> NoFile, body |-> Undefined],
          [route |-> "root", files |-> NoFile, body |-> Undefined]}

\* ------------------------------------------------------------------ state
\* inbox: the requests that have arrived and wait for their handler, where
\* several are in flight at once
VARIABLES rev, clock, pc, req, res, esqlContent, fileName, caught, inbox

vars == <<rev, clock, pc, req, res, esqlContent, fileName, caught, inbox>>

Init ==
    /\ rev \in Revisions
    /\ clock = 0
    /\ pc = "idle"
    /\ req = NoRequest
    /\ res = NoResponse
    /\ esqlContent = InitialLocals.esqlContent
    /\ fileName = InitialLocals.fileName
    /\ caught = NoError
    /\ inbox = {}

\* a request arrives and is parsed by the body and upload middleware
Receive ==
    /\ pc = "idle"
    /\ \E r \in Requests(rev) : req' = r
    /\ pc' = "pending"
    /\ UNCHANGED <<rev, clock, res, esqlContent, fileName, caught, inbox>>

\* the handler reads the clock twice; it may advance in between
Reads(now) == {t \in {now, now + 1} : t <= MaxClock}

Finish(out, now2) ==
    /\ res' = out.res
    /\ esqlContent' = out.esqlContent
    /\ fileName' = out.fileName
    /\ caught' = out.caught
    /\ clock' = now2
    /\ pc' = "responded"
    /\ UNCHANGED <<rev, req, inbox>>

Routed(rv, route) ==
    /\ pc = "pending"
    /\ rev = rv
    /\ req.route = route
    /\ req.body.t # "malformed"

PostConvertFileupload ==
    /\ Routed("fileupload", "convert")
    /\ \E now2 \in Reads(clock) :
          Finish(HandleConvertPreChecked("fileupload", req, clock, now2), now2)

PostConvertMulter ==
    /\ Routed("multer", "convert")
    /\ \E now2 \in Reads(clock) :
          Finish(HandleConvertMulter(req, clock, now2), now2)

PostConvertMiddleware ==
    /\ Routed("middleware", "convert")
    /\ \E now2 \in Reads(clock) :
          Finish(HandleConvertPreChecked("middleware", req, clock, now2), now2)

\* process.uptime() is the clock reading: the process starts at time 0
HealthBody(rv, now) ==
    CASE rv = "multer" -> [status |-> "OK", service |-> "ESQL to XSD Converter"]
      [] rv = "fileupload" ->
            [status |-> "OK", service |-> "ESQL to XSD Converter API",
             version |-> "1.0.0", nodeVersion |-> "process.version"]
      [] OTHER ->
            [status |-> "OK", service |-> "ESQL to XSD Converter API",
             version |-> "1.0.0", nodeVersion |-> "process.version",
             uptime |-> now]

GetHealth ==
    /\ pc = "pending"
    /\ req.route = "health"
    /\ res' = Json(200, HealthBody(rev, clock))
    /\ pc' = "responded"
    /\ UNCHANGED <<rev, clock, req, esqlContent, fileName, caught, inbox>>

GetRoot ==
    /\ pc = "pending"
    /\ req.route = "root"
    /\ res' = Json(200, [service |-> "ESQL to XSD Conversion API"])
    /\ pc' = "responded"
    /\ UNCHANGED <<rev, clock, req, esqlContent, fileName, caught, inbox>>

\* lines 458-465: reached only through next(err), never from the handler's try
ErrorMiddleware ==
    /\ pc = "pending"
    /\ rev = "middleware"
    /\ req.body.t = "malformed"
    /\ res' = Json(500, [success |-> FALSE, error |-> "Internal server error"])
    /\ caught' = Error("Unexpected token in JSON")
    /\ pc' = "responded"
    /\ UNCHANGED <<rev, clock, req, esqlContent, fileName, inbox>>

\* the other revisions register no error middleware: the framework answers
\* with the parser error's own status and an HTML page
DefaultErrorHandler ==
    /\ pc = "pending"
    /\ rev # "middleware"
    /\ req.body.t = "malformed"
    /\ res' = Json(400, [html |-> TRUE])
    /\ caught' = Error("Unexpected token in JSON")
    /\ pc' = "responded"
    /\ UNCHANGED <<rev, clock, req, esqlContent, fileName, inbox>>

\* the response is sent; the request-scoped values are gone
Close ==
    /\ pc = "responded"
    /\ pc' = "idle"
    /\ req' = NoRequest
    /\ res' = NoResponse
    /\ esqlContent' = InitialLocals.esqlContent
    /\ fileName' = InitialLocals.fileName
    /\ caught' = NoError
    /\ UNCHANGED <<rev, clock, inbox>>

Tick ==
    /\ pc = "idle"
    /\ clock < MaxClock
    /\ clock' = clock + 1
    /\ UNCHANGED <<rev, pc, req, res, esqlContent, fileName, caught, inbox>>

Next ==
    \/ Receive
    \/ PostConvertFileupload
    \/ PostConvertMulter
    \/ PostConvertMiddleware
    \/ GetHealth
    \/ GetRoot
    \/ ErrorMiddleware
    \/ DefaultErrorHandler
    \/ Close
    \/ Tick

\* ------------------------------------------- several requests in flight
\* The server accepts further requests while earlier ones wait for their
\* handler; a handler runs to completion once started.  Here req, res,
\* esqlContent, fileName and caught describe the exchange most recently
\* completed (the locals are those of the last convert handler to run).
MaxInbox == 2

InFlightRequests ==
    {[route |-> "convert", files |-> NoFile, body |-> b] :
        b \in {Undefined, MalformedBody, Str(<<"x">>),
               JsonBody(Str(<<"x">>), Undefined, Str(XEsql)),
               JsonBody(Str(<<>>), Undefined, Str(XEsql)),
               JsonBody(Num(5), Undefined, Undefined)}}
    \cup {[route |-> "convert", files |-> File(SampleEsql, SampleContent),
           body |-> JsonBody(Undefined, Undefined, Undefined)],
          [route |-> "health", files |-> NoFile, body |-> Undefined],
          [route |-> "root", files |-> NoFile, body |-> Undefined]}

Arrive ==
    /\ Cardinality(inbox) < MaxInbox
    /\ \E r \in InFlightRequests \ inbox : inbox' = inbox \cup {r}
    /\ UNCHANGED <<rev, clock, pc, req, res, esqlContent, fileName, caught>>

\* request r leaves the inbox answered
Served(r, response, now) ==
    /\ inbox' = inbox \ {r}
    /\ req' = r
    /\ res' = response
    /\ clock' = now
    /\ pc' = "responded"
    /\ UNCHANGED rev

\* a handler whose two locals live at module scope: a request that takes
\* neither branch of the extraction finds the values of the request before
ServeConvertSticky ==
    \E r \in inbox :
        /\ r.route = "convert"
        /\ r.body.t # "malformed"
        /\ \E now2 \in Reads(clock) :
              LET left == Locals(esqlContent, fileName)
                  out == IF r.files.t # "none" \/ Truthy(r.body)
                         THEN HandleConvert(rev, r, clock, now2)
                         ELSE IF rev # "multer" /\ ~Truthy(left.esqlContent)
                         THEN Caught(left, Error("No ESQL content provided"))
                         ELSE ConvertAndRespond(rev, left, clock, now2)
              IN  /\ Served(r, out.res, now2)
                  /\ esqlContent' = out.esqlContent
                  /\ fileName' = out.fileName
                  /\ caught' = out.caught

ServeConvert ==
    \E r \in inbox :
        /\ r.route = "convert"
        /\ r.body.t # "malformed"
        /\ \E now2 \in Reads(clock) :
              LET out == HandleConvert(rev, r, clock, now2)
              IN  /\ Served(r, out.res, now2)
                  /\ esqlContent' = out.esqlContent
                  /\ fileName' = out.fileName
                  /\ caught' = out.caught

\* lines 459-465 where registered, else the framework's own answer
ParseErrorResponse(rv) ==
    IF rv = "middleware"
    THEN Json(500, [success |-> FALSE, error |-> "Internal server error"])
    ELSE Json(400, [html |-> TRUE])

ServeParseError ==
    \E r \in inbox :
        /\ r.route = "convert"
        /\ r.body.t = "malformed"
        /\ Served(r, ParseErrorResponse(rev), clock)
        /\ UNCHANGED <<esqlContent, fileName, caught>>

ServeHealth ==
    \E r \in inbox :
        /\ r.route = "health"
        /\ Served(r, Json(200, HealthBody(rev, clock)), clock)
        /\ UNCHANGED <<esqlContent, fileName, caught>>

ServeRoot ==
    \E r \in inbox :
        /\ r.route = "root"
        /\ Served(r, Json(200, [service |-> "ESQL to XSD Conversion API"]), clock)
        /\ UNCHANGED <<esqlContent, fileName, caught>>

Elapse ==
    /\ clock < MaxClock
    /\ clock' = clock + 1
    /\ UNCHANGED <<rev, pc, req, res, esqlContent, fileName, caught, inbox>>

NextInFlight ==
    \/ Arrive
    \/ ServeConvert
    \/ ServeParseError
    \/ ServeHealth
    \/ ServeRoot
    \/ Elapse

SpecInFlight == Init /\ [][NextInFlight]_vars

\* ------------------------------------------------------------ properties
\* POST /api/convert has run its handler and answered
Handled ==
    /\ pc = "responded"
    /\ req.route = "convert"
    /\ req.body.t # "malformed"

Success == Handled /\ res.code = 200

\* missing, empty or all-whitespace
Blank(v) ==
    \/ v.t \in {"undefined", "null"}
    \/ v.t = "string" /\ \A i \in 1..Len(v.s) : v.s[i] \in WhiteSpace

NonBlankString(v) == v.t = "string" /\ ~Blank(v)

\* C1: blank extracted content, whichever channel carried it, is answered
\* with 400, success = false and a non-empty error string, never with 200.
C1_BlankContentRejected ==
    (Handled /\ Blank(esqlContent)) =>
        /\ res.code = 400
        /\ res.body.success = FALSE
        /\ Len(res.body.error) > 0

C1_Witness ==
    /\ Handled
    /\ req.files.t = "file"
    /\ esqlContent = Str(<<" ", "\n">>)
    /\ res.code = 400

EmptyContentRequest ==
    [route |-> "convert", files |-> NoFile,
     body |-> JsonBody(Str(<<>>), Undefined, Str(XEsql))]

\* C2 as stated: the JSON body {"content": "", "filename": "x.esql"} is
\* answered with 400 and exactly {success: false, error: "ESQL content is empty"}.
C2_EmptyContentMessage ==
    (Handled /\ req = EmptyContentRequest) =>
        /\ res.code = 400
        /\ res.body = [success |-> FALSE, error |-> "ESQL content is empty"]

\* C2 amended: that request is answered with 400 and success = false; the
\* error is "No ESQL content provided" where the handler checks the content
\* before converting, and "ESQL content is empty" in the multer revision;
\* whitespace-only content gets "ESQL content is empty" in every revision.
C2_EmptyContentMessageByRevision ==
    /\ (Handled /\ req = EmptyContentRequest) =>
          /\ res.code = 400
          /\ res.body = [success |-> FALSE,
                         error |-> IF rev = "multer" THEN "ESQL content is empty"
                                   ELSE "No ESQL content provided"]
    /\ (Handled /\ esqlContent.t = "string" /\ esqlContent.s # <<>>
                /\ Blank(esqlContent)) =>
          res.body = [success |-> FALSE, error |-> "ESQL content is empty"]

C2_Witness ==
    /\ Handled
    /\ req = EmptyContentRequest
    /\ rev = "fileupload"
    /\ res.body.error = "No ESQL content provided"

\* C3 as stated: an exception that is not a validation error is answered
\* with 500 {success: false, error: "Internal server error"}, its message
\* kept from the caller; only validation errors are answered with 400.
C3_UnexpectedErrorsMasked ==
    (pc = "responded" /\ req.route = "convert" /\ rev = "middleware"
        /\ caught.name # "none"
        /\ caught.message \notin {"ESQL content is empty", "No ESQL content provided"})
    => res = Json(500, [success |-> FALSE, error |-> "Internal server error"])

EsqlSuffixes ==
    {<<".", e, s, q, l>> : e \in {"e", "E"}, s \in {"s", "S"},
                           q \in {"q", "Q"}, l \in {"l", "L"}}

EndsWithEsql(n) ==
    Len(n) >= 5 /\ SubSeq(n, Len(n) - 4, Len(n)) \in EsqlSuffixes

\* C4: convertedFileName is originalFileName with one trailing ".esql", in
\* any letter case, replaced by ".xsd", and originalFileName itself when it
\* has no such suffix; replacing again changes nothing.
C4_ConvertedFileName ==
    Success =>
        LET o == res.body.originalFileName
            c == res.body.convertedFileName
        IN  /\ EndsWithEsql(o) => c = SubSeq(o, 1, Len(o) - 5) \o DotXsd
            /\ ~EndsWithEsql(o) => c = o
            /\ ReplaceEsqlSuffix(c) = c

C4_Witness ==
    /\ Success
    /\ res.body.originalFileName = <<"a", ".", "E", "s", "q", "L">>
    /\ res.body.convertedFileName = <<"a", ".", "x", "s", "d">>

IsString(v) == v.t = "string"
NonEmptyString(v) == v.t = "string" /\ Len(v.s) > 0
StringOrAbsent(v) == v.t \in {"string", "undefined"}

\* the body is a JSON object whose fields are strings or absent
StructuredBody ==
    /\ req.files.t = "none"
    /\ req.body.t = "object"
    /\ StringOrAbsent(req.body.content)
    /\ StringOrAbsent(req.body.filename)

\* the file branch and the plain-text branch of the precedence
FileAndTextPrecedence ==
    /\ req.files.t = "file" =>
          /\ esqlContent = Str(Utf8Decode(req.files.data))
          /\ fileName = Str(req.files.name)
          /\ req.files.data = <<>> => res.code = 400
    /\ (req.files.t = "none" /\ req.body.t = "string") => esqlContent = req.body

FilenameOrDefault ==
    fileName = IF NonEmptyString(req.body.filename) THEN req.body.filename
               ELSE Str(InputEsql)

\* C5 as stated: an attached file wins and body fields are ignored, an
\* empty file is rejected; else a JSON object gives its "content" field when
\* that is non-empty and else its "esqlContent" field, and its "filename"
\* field when non-empty and else the default; else a text body is the content.
C5_InputPrecedence ==
    Handled =>
        /\ FileAndTextPrecedence
        /\ StructuredBody =>
              /\ esqlContent = IF NonEmptyString(req.body.content)
                               THEN req.body.content ELSE req.body.esqlContent
              /\ FilenameOrDefault

\* C5 amended: as stated, except that the multer revision never consults
\* the "esqlContent" field: there the content of a JSON object is its
\* "content" field alone.
C5_InputPrecedenceByRevision ==
    Handled =>
        /\ FileAndTextPrecedence
        /\ StructuredBody =>
              /\ esqlContent = IF rev = "multer" \/ NonEmptyString(req.body.content)
                               THEN req.body.content ELSE req.body.esqlContent
              /\ FilenameOrDefault

C5_Witness ==
    /\ Success
    /\ rev = "fileupload"
    /\ StructuredBody
    /\ req.body.content = Str(<<>>)
    /\ req.body.esqlContent = Str(<<"y">>)
    /\ esqlContent = Str(<<"y">>)

\* pat occurs in s as a run of consecutive elements
Contains(s, pat) ==
    \E i \in 1..(Len(s) - Len(pat) + 1) : SubSeq(s, i, i + Len(pat) - 1) = pat

\* the request itself names n
Supplied(n) ==
    \/ req.files.t = "file" /\ Contains(req.files.name, n)
    \/ /\ req.body.t = "object"
       /\ IsString(req.body.filename)
       /\ Contains(req.body.filename.s, n)

\* the content extracted is non-blank and came from a text body, or from a
\* JSON body that has no filename field
CarriesContentWithoutName ==
    /\ req.files.t = "none"
    /\ NonBlankString(esqlContent)
    /\ \/ req.body.t = "string"
       \/ req.body.t = "object" /\ req.body.filename = Undefined

\* C6: non-blank content in a text body, or in a JSON body without a
\* filename field, is answered with 200 and originalFileName "input.esql";
\* "unknown.esql" and "converted_file.esql" appear in a success response
\* only when the request supplied them.
C6_DefaultFileName ==
    /\ (Handled /\ CarriesContentWithoutName) =>
          /\ res.code = 200
          /\ res.body.originalFileName = InputEsql
    /\ Success =>
          \A n \in {UnknownEsql, ConvertedFileEsql} :
              (\/ Contains(res.body.originalFileName, n)
               \/ Contains(res.body.xsdContent, n)) => Supplied(n)

C6_Witness ==
    /\ Success
    /\ req.body.t = "string"
    /\ res.body.originalFileName = InputEsql

FileComment(n) == <<"<!--", " Generated from ESQL file: ">> \o n \o <<" ", "-->">>

SampleUpload ==
    /\ req.route = "convert"
    /\ req.files = File(SampleEsql, SampleContent)

\* C7: xsdContent contains the comment "<!-- Generated from ESQL file: N -->"
\* with N the originalFileName of the same response; uploading sample.esql
\* gives 200, convertedFileName "sample.xsd" and a comment naming sample.esql.
C7_CommentNamesOriginal ==
    /\ Success => Contains(res.body.xsdContent, FileComment(res.body.originalFileName))
    /\ (Handled /\ SampleUpload) =>
          /\ res.code = 200
          /\ res.body.convertedFileName = SampleXsd
          /\ Contains(res.body.xsdContent, FileComment(SampleEsql))

C7_Witness ==
    /\ Success
    /\ SampleUpload
    /\ res.body.convertedFileName = SampleXsd

RECURSIVE Scan(_, _, _)
\* The generated part of a document is well-formed from element i on.  In a
\* comment, "--" may only occur as part of the closing "-->"; outside one,
\* "<" must open a comment (the characters of a file name cannot form any
\* other markup) and "&" is not allowed.
Scan(doc, i, inComment) ==
    IF i > Len(doc) THEN ~inComment
    ELSE IF inComment
    THEN IF doc[i] = "-->" THEN Scan(doc, i + 1, FALSE)
         ELSE IF doc[i] = "-" /\ i < Len(doc) /\ doc[i + 1] \in {"-", "-->"}
         THEN /\ doc[i + 1] = "-"
              /\ i + 2 <= Len(doc)
              /\ doc[i + 2] = ">"
              /\ Scan(doc, i + 3, FALSE)
         ELSE Scan(doc, i + 1, TRUE)
    ELSE IF doc[i] = "<!--" THEN Scan(doc, i + 1, TRUE)
    ELSE IF doc[i] = "<"
    THEN /\ i + 3 <= Len(doc)
         /\ SubSeq(doc, i + 1, i + 3) = <<"!", "-", "-">>
         /\ Scan(doc, i + 4, TRUE)
    ELSE doc[i] # "&" /\ Scan(doc, i + 1, FALSE)

WellFormedXml(doc) == Scan(doc, 1, FALSE)

\* the comment opened for the file name is closed by the "-->" of the template
FileCommentIntact(doc) ==
    LET open == CHOOSE i \in 1..Len(doc) : doc[i] = "<!--"
        ends == {j \in (open + 1)..Len(doc) :
                    \/ doc[j] = "-->"
                    \/ j >= 2 /\ SubSeq(doc, j - 2, j) = <<"-", "-", ">">>}
        first == CHOOSE j \in ends : \A k \in ends : j <= k
    IN  doc[first] = "-->"

\* C8 as stated: xsdContent is well-formed XML whatever the file name, and
\* the file name never ends the "Generated from ESQL file" comment early.
C8_WellFormedXml ==
    Success =>
        /\ WellFormedXml(res.body.xsdContent)
        /\ FileCommentIntact(res.body.xsdContent)

ReportsLengths ==
    {"esqlContentLength", "xsdContentLength"} \subseteq DOMAIN res.body

WithContent(r, c) ==
    IF r.files.t = "file" THEN [r EXCEPT !.files.data = c]
    ELSE IF r.body.t = "string" THEN [r EXCEPT !.body = Str(c)]
    ELSE [r EXCEPT !.body.content = Str(c)]

NonBlankContents == {c \in Contents : NonBlankString(Str(c))}

\* r1 and r2 agree on everything but esqlContentLength
SameButInputLength(r1, r2) ==
    /\ r1.code = r2.code
    /\ DOMAIN r1.body = DOMAIN r2.body
    /\ \A f \in DOMAIN r1.body \ {"esqlContentLength"} : r1.body[f] = r2.body[f]

\* C10: with the file name and the clock fixed, convertESQLToXSD returns the
\* same xsdContent for every non-blank content, and the success responses of
\* two such requests differ in esqlContentLength at most.
C10_ContentIndependent ==
    Success =>
        \E now1 \in 0..clock :
            \A c \in NonBlankContents :
                /\ convertESQLToXSD(rev, Str(c), fileName, now1)
                      = Returned(res.body.xsdContent)
                /\ SameButInputLength(
                      HandleConvert(rev, WithContent(req, c), now1, clock).res, res)

C10_Witness ==
    /\ Success
    /\ esqlContent = Str(SampleContent)
    /\ req.body.t = "string"
    /\ rev = "fileupload"

\* the response to r when it is the only request the server ever handles,
\* its handler reading the clock at now1 and now2
Alone(rv, r, now1, now2) ==
    CASE r.route = "health" -> Json(200, HealthBody(rv, now1))
      [] r.route = "root" -> Json(200, [service |-> "ESQL to XSD Conversion API"])
      [] r.body.t = "malformed" -> ParseErrorResponse(rv)
      [] OTHER -> HandleConvert(rv, r, now1, now2).res

\* C11: whatever was handled before and whatever else is in flight, the
\* response to a request is the one it would receive as the only request
\* ever handled (at the same clock readings), failed requests included, and
\* GET /api/health is answered with 200 and status "OK".
C11_RequestsIndependent ==
    pc = "responded" =>
        /\ \E now1 \in 0..clock : \E now2 \in Reads(now1) :
              res = Alone(rev, req, now1, now2)
        /\ req.route = "health" => (res.code = 200 /\ res.body.status = "OK")
        /\ (req.route = "convert" /\ req.files = NoFile /\ req.body = Undefined) =>
              (res.code = 400 /\ res.body.success = FALSE)

\* health answered while another request is in flight and after a convert
\* request has failed
C11_Witness ==
    /\ pc = "responded"
    /\ req.route = "health"
    /\ res.body.status = "OK"
    /\ caught.name = "Error"
    /\ inbox # {}

\* the extracted content has a non-whitespace character and the request's
\* file name is a string or absent
ValidInput ==
    /\ Handled
    /\ NonBlankString(esqlContent)
    /\ \/ req.files.t = "file"
       \/ req.body.t = "string"
       \/ req.body.t = "object" /\ StringOrAbsent(req.body.filename)

ShortFields ==
    {"success", "originalFileName", "convertedFileName", "xsdContent",
     "conversionDate"}

LongFields ==
    ShortFields \cup {"esqlContentLength", "xsdContentLength", "conversionType"}

NoSuccessWithError ==
    pc = "responded" =>
        ~ /\ "success" \in DOMAIN res.body
          /\ res.body.success
          /\ "error" \in DOMAIN res.body

Spec == Init /\ [][Next]_vars
====
